---- MODULE Spec2Model ----
(***************************************************************************)
(* A model of src/src/main.rs: a genetic algorithm for the open-path       *)
(* travelling salesman problem.  main builds an initial population of      *)
(* shuffled city orders, constructs a Simulation and calls run, which      *)
(* calls generate_next_generation max_iterations times and tracks the      *)
(* fittest Path seen.                                                      *)
(*                                                                         *)
(* Numbers.  Coordinates, rates and fitness are f64 in the source.  The    *)
(* model keeps them exact:                                                 *)
(*   - a rate is a fraction num/den whose denominator is a power of two,   *)
(*     so the f64 holds it exactly and `len as f64 * rate` is exact;       *)
(*   - the city lists are chosen so that every pairwise distance is a      *)
(*     whole number (a 3-4-5 triangle), so sqrt and the running sum are    *)
(*     exact in f64;                                                       *)
(*   - a fitness 1.0 / cost is the fraction 1/cost; cost = 0 gives         *)
(*     +infinity, which the comparison by cross-multiplication orders      *)
(*     above every finite fitness and not above itself, as f64 does.       *)
(* No NaN can arise from finite coordinates, so partial_cmp(..).unwrap()   *)
(* in the sort never panics and is not modelled as an abort.               *)
(*                                                                         *)
(* Randomness.  Every draw of thread_rng (shuffle, crossover point, the    *)
(* father's index, the mutation coin and the two swap positions) is a      *)
(* nondeterministic choice over the whole range drawn from.  gen_bool(0)   *)
(* is never true and gen_bool(1) is always true.                           *)
(*                                                                         *)
(* Aborts.  A panic (index or slice out of range, an empty Uniform range,  *)
(* gen_bool outside [0,1], a failed assert!, arithmetic overflow in a      *)
(* debug build) ends the program: pc = "aborted" and abort names the       *)
(* place.  In a release build the usize subtractions wrap instead; each    *)
(* wrapped value is then used as a loop bound or a slice index that ends   *)
(* the program as well (see the places), so both builds abort.             *)
(***************************************************************************)
EXTENDS Integers, Sequences, FiniteSets, TLC

\* Bounds of the model: population_count ranges over 0..MaxPopulation,
\* max_iterations over 0..MaxIterations, and a population holds at most
\* MaxGenes order entries in all (population_count * number of cities), which
\* keeps the populations over the three-city list to at most three Paths and
\* those of four Paths to the lists of at most two cities.
MaxPopulation == 4
MaxIterations == 2
MaxGenes == 9

VARIABLES
    city_list,        \* Simulation.city_list: a sequence of City
    max_iterations,   \* Simulation.max_iterations
    crossover_rate,   \* Simulation.crossover_rate
    mutation_rate,    \* Simulation.mutation_rate
    survival_rate,    \* Simulation.survival_rate
    population_count, \* the population_count argument of initial_population
    population,       \* Simulation.population: a sequence of Path
    fittest,          \* run's local `fittest`
    challenger,       \* run's local `challenger`
    i,                \* completed iterations of run's for loop
    pc,               \* where main is: "main", "run", "loop", "challenge", "done", "aborted"
    abort,            \* the place that aborted, "" while running
    calls,            \* generate_next_generation calls started so far
    best_seen         \* greatest fitness of any Path of any population so far

vars == <<city_list, max_iterations, crossover_rate, mutation_rate, survival_rate,
          population_count, population, fittest, challenger, i, pc, abort, calls,
          best_seen>>

config == <<city_list, max_iterations, crossover_rate, mutation_rate, survival_rate,
            population_count>>

----------------------------------------------------------------------------
\* Values

City(x, y) == [x |-> x, y |-> y]

Rate(n, d) == [num |-> n, den |-> d]

NoPath == [fitness |-> Rate(0, 1), order |-> <<>>]

\* a.fitness > b.fitness on f64, for fractions with den >= 0 (den = 0: +inf)
FitnessGT(a, b) == a.num * b.den > b.num * a.den

\* `x as usize` for a non-negative-denominator fraction: truncation, and
\* saturation to 0 below zero
AsUsize(r) == IF r.num <= 0 THEN 0 ELSE r.num \div r.den

\* `n as f64 * rate`
TimesRate(n, r) == Rate(n * r.num, r.den)

\* 0.0 <= rate <= 1.0
InUnitInterval(r) == r.num >= 0 /\ r.num <= r.den

\* f64::sqrt on the perfect squares the city lists produce
Sqrt(n) == CHOOSE r \in 0..n : r * r = n

Distance(a, b) == Sqrt((a.x - b.x) * (a.x - b.x) + (a.y - b.y) * (a.y - b.y))

\* Orders hold 0-based city indices, as in the source; a sequence of the model
\* is 1-based, so position p of the source is element p + 1.
At(s, p) == s[p + 1]

Contains(s, d) == \E k \in 1..Len(s) : s[k] = d

----------------------------------------------------------------------------
\* impl Path

\* The cost summed by the loop of calculate_fitness over edges first..last-1
RECURSIVE PathCost(_, _, _, _)
PathCost(path, cities, first, last) ==
    IF first >= last THEN 0
    ELSE Distance(At(cities, At(path, first)), At(cities, At(path, first + 1)))
         + PathCost(path, cities, first + 1, last)

\* Path::calculate_fitness, for a non-empty city list (an empty one overflows
\* path_length - 1: see InitialPopulation)
CalculateFitness(path, cities) == Rate(1, PathCost(path, cities, 0, Len(cities) - 1))

\* A crossover that appends the father without the filter
CrossoverOrderUnfiltered(mother, father, crossover_point) ==
    SubSeq(mother, 1, crossover_point) \o father

\* Path::crossover_order, with the crossover point drawn
CrossoverOrder(mother, father, crossover_point) ==
    LET mother_dna == SubSeq(mother, 1, crossover_point)
        NotInMother(d) == ~Contains(mother_dna, d)
        father_dna == SelectSeq(father, NotInMother)
    IN  mother_dna \o father_dna

\* Path::breed, with the crossover point drawn
Breed(self, other, cities, crossover_point) ==
    LET order == CrossoverOrder(self.order, other.order, crossover_point)
    IN  [fitness |-> CalculateFitness(order, cities), order |-> order]

\* Vec::swap
Swap(s, a, b) ==
    [k \in 1..Len(s) |-> IF k = a + 1 THEN At(s, b) ELSE IF k = b + 1 THEN At(s, a) ELSE s[k]]

\* A mutate that swaps and leaves the cached fitness as it was
MutateKeepFitness(self, cities, point_one, point_two) ==
    [fitness |-> self.fitness, order |-> Swap(self.order, point_one, point_two)]

\* Path::mutate, with the two points drawn
Mutate(self, cities, point_one, point_two) ==
    LET order == Swap(self.order, point_one, point_two)
    IN  [fitness |-> CalculateFitness(order, cities), order |-> order]

\* Every Path breed can return for this mother: the father is
\* breeding_population[rs] for a drawn rs, the crossover point is drawn from
\* 0..mother.len()-1
BreedOutcomes(mother, breeding_population, cities) ==
    { Breed(mother, At(breeding_population, rs), cities, crossover_point) :
        rs \in 0..(Len(breeding_population) - 1),
        crossover_point \in 0..(Len(mother.order) - 1) }

\* Every Path mutate can leave in a slot
MutateOutcomes(self, cities) ==
    { Mutate(self, cities, point_one, point_two) :
        point_one \in 0..(Len(self.order) - 1),
        point_two \in 0..(Len(self.order) - 1) }

----------------------------------------------------------------------------
\* impl Simulation

\* All sequences s of the length of `sets` with s[k] \in sets[k]: the outcomes
\* of independent draws, one per slot
RECURSIVE SeqProduct(_)
SeqProduct(sets) ==
    IF sets = <<>> THEN { <<>> }
    ELSE { <<h>> \o t : h \in Head(sets), t \in SeqProduct(Tail(sets)) }

\* A scan that compares with >= and so keeps the last maximum
RECURSIVE FindFittestLastFrom(_, _, _)
FindFittestLastFrom(pop, k, best) ==
    IF k >= Len(pop) THEN best
    ELSE FindFittestLastFrom(pop, k + 1,
            IF ~FitnessGT(At(pop, best).fitness, At(pop, k).fitness) THEN k ELSE best)

\* Simulation::find_fittest: the scan from position k with the best so far at
\* position best (positions 0-based)
RECURSIVE FindFittestFrom(_, _, _)
FindFittestFrom(pop, k, best) ==
    IF k >= Len(pop) THEN best
    ELSE FindFittestFrom(pop, k + 1,
            IF FitnessGT(At(pop, k).fitness, At(pop, best).fitness) THEN k ELSE best)

\* Simulation::find_fittest on a non-empty population (an empty one panics at
\* population[0]: see RunStart)
FindFittest(pop) == At(pop, FindFittestFrom(pop, 1, 0))

\* The comparator of sort_by: b.fitness.partial_cmp(&a.fitness) is Less, i.e.
\* a sorts strictly before b
SortsBefore(a, b) == FitnessGT(a.fitness, b.fitness)

\* Insertion of x into a sorted sequence behind every element it does not
\* sort strictly before: what a stable sort does with the last element
RECURSIVE InsertStable(_, _)
InsertStable(sorted, x) ==
    IF sorted = <<>> THEN <<x>>
    ELSE IF SortsBefore(x, Head(sorted)) THEN <<x>> \o sorted
    ELSE <<Head(sorted)>> \o InsertStable(Tail(sorted), x)

\* self.population.sort_by(..): slice::sort_by is stable
RECURSIVE SortDescending(_)
SortDescending(pop) ==
    IF pop = <<>> THEN <<>>
    ELSE InsertStable(SortDescending(SubSeq(pop, 1, Len(pop) - 1)), pop[Len(pop)])

\* breeding_count and surviving_parent_count for a population of n Paths
BreedingCount(n, crossover) == AsUsize(TimesRate(n, crossover))

SurvivingParentCount(n, crossover, survival) ==
    AsUsize(TimesRate(BreedingCount(n, crossover), survival))

\* An offspring count that reserves one slot instead of two
OffspringCountOffByOne(n, surviving_parent_count) == n - surviving_parent_count - 1

\* self.population.len() - surviving_parent_count - 2, in the integers: below
\* zero where the usize arithmetic overflows
OffspringCount(n, surviving_parent_count) == n - surviving_parent_count - 2

\* The offspring loop, slot by slot: slot i can hold any Path that
\* breeding_population[i % len] breeds with a drawn member of the breeding
\* population.  A sequence of sets of Paths, one set per slot.
OffspringOutcomes(breeding_population, count, cities) ==
    [k \in 1..count |->
        BreedOutcomes(At(breeding_population, (k - 1) % Len(breeding_population)),
                      breeding_population, cities)]

\* An assembly that ends with the first two of the sorted population
AssembleFirstTwo(sorted, surviving_parent_count, offspring) ==
    SubSeq(sorted, 1, surviving_parent_count) \o offspring \o SubSeq(sorted, 1, 2)

\* An assembly that takes the surviving parents from the tail
AssembleTailElites(sorted, surviving_parent_count, offspring) ==
    SubSeq(sorted, Len(sorted) - surviving_parent_count + 1, Len(sorted))
        \o offspring \o SubSeq(sorted, Len(sorted) - 1, Len(sorted))

\* next_generation before the mutation pass: the surviving parents, the
\* offspring, the last two of the sorted population
Assemble(sorted, surviving_parent_count, offspring) ==
    SubSeq(sorted, 1, surviving_parent_count)
        \o offspring
        \o SubSeq(sorted, Len(sorted) - 1, Len(sorted))

\* One step of the mutation pass: what `if gen_bool(rate) { p.mutate(..) }`
\* can leave in a slot that holds `path`.  gen_bool(0.0) is never true,
\* gen_bool(1.0) always.
MutationPassOutcomes(path, rate, cities) ==
    IF rate.num = 0 THEN { path }
    ELSE IF rate.num = rate.den THEN MutateOutcomes(path, cities)
    ELSE { path } \cup MutateOutcomes(path, cities)

AssertPlace == "assert!(next_generation.len() == self.population.len())"

\* The places where generate_next_generation aborts before its assert!, as a
\* set (empty: it goes on).  The first failing statement decides.
AbortPlaces(pop, crossover, survival) ==
    LET breeding_count == BreedingCount(Len(pop), crossover)
        surviving_parent_count == SurvivingParentCount(Len(pop), crossover, survival)
    IN  IF breeding_count > Len(pop)
            THEN { "population[0..breeding_count]: range end out of range" }
        ELSE IF breeding_count = 0
            THEN { "Uniform::new(0, breeding_population.len()): empty range" }
        ELSE IF OffspringCount(Len(pop), surviving_parent_count) < 0
            \* debug build: the subtraction panics; release build: it wraps and
            \* the loop pushes offspring until allocation fails
            THEN { "len - surviving_parent_count - 2: subtract with overflow",
                   "offspring.push: allocation failure after wrapped count" }
        \* the two slices of the assembly; the subtraction above has failed
        \* already wherever one of these would
        ELSE IF surviving_parent_count > Len(pop)
            THEN { "population[0..surviving_parent_count]: range end out of range" }
        ELSE IF Len(pop) < 2
            THEN { "population[len - 2..len]: subtract with overflow",
                   "population[len - 2..len]: range start out of range" }
        ELSE {}

\* Greatest fitness of a non-empty population
MaxFitness(pop) ==
    CHOOSE f \in { pop[k].fitness : k \in 1..Len(pop) } :
        \A k \in 1..Len(pop) : ~FitnessGT(pop[k].fitness, f)

FitnessMax(a, b) == IF FitnessGT(b, a) THEN b ELSE a

\* A run that keeps the latest challenger whatever its fitness
UpdateFittestAlways(best, contender) == contender

\* run: `if challenger.fitness > fittest.fitness { fittest = challenger; }`
UpdateFittest(best, contender) ==
    IF FitnessGT(contender.fitness, best.fitness) THEN contender ELSE best

\* A loop that stops one iteration early
LoopContinuesOneLess(done, max) == done + 1 < max

\* run: the condition of `for _ in 0..self.max_iterations` after `done` iterations
LoopContinues(done, max) == done < max

----------------------------------------------------------------------------
\* Inputs

\* City lists with whole-number distances: none, one city, two coinciding
\* cities, two distinct cities, a 3-4-5 triangle
CityLists ==
    { <<>>,
      <<City(0, 0)>>,
      <<City(1, 1), City(1, 1)>>,
      <<City(0, 0), City(3, 4)>>,
      <<City(0, 0), City(3, 0), City(0, 4)>> }

CrossoverRates == { Rate(0, 1), Rate(1, 2), Rate(1, 1), Rate(3, 2) }

SurvivalRates == { Rate(0, 1), Rate(1, 2), Rate(1, 1) }

MutationRates == { Rate(0, 1), Rate(1, 2), Rate(3, 2) }

\* initial_population: base_list
BaseList(cities) == [k \in 1..Len(cities) |-> k - 1]

\* Every result of p.shuffle(&mut rng)
Shuffles(list) ==
    { [k \in 1..Len(list) |-> list[perm[k]]] : perm \in Permutations(1..Len(list)) }

\* Every Path initial_population can push
InitialPaths(cities) ==
    { [fitness |-> CalculateFitness(p, cities), order |-> p] : p \in Shuffles(BaseList(cities)) }

----------------------------------------------------------------------------
\* The program

Init ==
    /\ city_list \in CityLists
    /\ population_count \in 0..MaxPopulation
    /\ population_count * Len(city_list) <= MaxGenes
    /\ max_iterations \in 0..MaxIterations
    /\ crossover_rate \in CrossoverRates
    /\ mutation_rate \in MutationRates
    /\ survival_rate \in SurvivalRates
    /\ population = <<>>
    /\ fittest = NoPath
    /\ challenger = NoPath
    /\ i = 0
    /\ pc = "main"
    /\ abort = ""
    /\ calls = 0
    /\ best_seen = Rate(0, 1)

Abort(place) ==
    /\ pc' = "aborted"
    /\ abort' = place

\* main: initial_population(&cities, n) and Simulation::new
InitialPopulation ==
    /\ pc = "main"
    /\ IF population_count > 0 /\ Len(city_list) = 0
       THEN \* calculate_fitness: path_length - 1 overflows (debug build), or wraps
            \* and path[0] of the empty order is out of range (release build)
            /\ \E place \in { "calculate_fitness: path_length - 1: subtract with overflow",
                              "calculate_fitness: path[0]: index out of bounds" } :
                  Abort(place)
            /\ UNCHANGED <<population, best_seen>>
       ELSE /\ population' \in [1..population_count -> InitialPaths(city_list)]
            /\ best_seen' = IF population_count = 0 THEN best_seen ELSE MaxFitness(population')
            /\ pc' = "run"
            /\ abort' = abort
    /\ UNCHANGED <<config, fittest, challenger, i, calls>>

\* run: `let mut fittest = self.find_fittest();`
RunStart ==
    /\ pc = "run"
    /\ IF Len(population) = 0
       THEN /\ Abort("find_fittest: population[0]: index out of bounds")
            /\ UNCHANGED fittest
       ELSE /\ fittest' = FindFittest(population)
            /\ pc' = "loop"
            /\ abort' = abort
    /\ UNCHANGED <<config, population, challenger, i, calls, best_seen>>

\* Simulation::generate_next_generation from the sort to the assert!, slot by
\* slot: element k is the set of Paths slot k of next_generation can hold.
\* The draws of different slots are independent, so next_generation is any
\* sequence that takes one Path from each set.
NextGenerationSlots(pop, cities, crossover, survival) ==
    LET sorted == SortDescending(pop)
        breeding_count == BreedingCount(Len(pop), crossover)
        surviving_parent_count == SurvivingParentCount(Len(pop), crossover, survival)
        breeding_population == SubSeq(sorted, 1, breeding_count)
        offspring == OffspringOutcomes(breeding_population,
                                       OffspringCount(Len(pop), surviving_parent_count),
                                       cities)
    IN  Assemble([k \in 1..Len(sorted) |-> { sorted[k] }], surviving_parent_count, offspring)

\* The mutation pass over next_generation, slot by slot
MutationPassSlots(slots, rate, cities) ==
    [k \in 1..Len(slots) |->
        UNION { MutationPassOutcomes(path, rate, cities) : path \in slots[k] }]

\* run: `self.generate_next_generation();` in the loop
GenerateNextGeneration ==
    /\ pc = "loop"
    /\ LoopContinues(i, max_iterations)
    /\ calls' = calls + 1
    /\ LET places == AbortPlaces(population, crossover_rate, survival_rate)
           slots == NextGenerationSlots(population, city_list, crossover_rate, survival_rate)
       IN  IF places # {}
           THEN /\ \E place \in places : Abort(place)
                /\ population' = SortDescending(population)
                /\ UNCHANGED best_seen
           ELSE IF Len(slots) # Len(population)
           THEN /\ Abort(AssertPlace)
                /\ population' = SortDescending(population)
                /\ UNCHANGED best_seen
           ELSE IF ~InUnitInterval(mutation_rate)
           THEN /\ Abort("gen_bool: p outside [0, 1]")
                /\ population' = SortDescending(population)
                /\ UNCHANGED best_seen
           ELSE /\ population' \in SeqProduct(MutationPassSlots(slots, mutation_rate, city_list))
                /\ best_seen' = FitnessMax(best_seen, MaxFitness(population'))
                /\ pc' = "challenge"
                /\ abort' = abort
    /\ UNCHANGED <<config, fittest, challenger, i>>

\* run: `let challenger = self.find_fittest(); if ... { fittest = challenger; }`
Challenge ==
    /\ pc = "challenge"
    /\ challenger' = FindFittest(population)
    /\ fittest' = UpdateFittest(fittest, challenger')
    /\ i' = i + 1
    /\ pc' = "loop"
    /\ UNCHANGED <<config, population, abort, calls, best_seen>>

\* run returns when the loop is exhausted, and main with it
RunReturn ==
    /\ pc = "loop"
    /\ ~LoopContinues(i, max_iterations)
    /\ pc' = "done"
    /\ UNCHANGED <<config, population, fittest, challenger, i, abort, calls, best_seen>>

Next ==
    \/ InitialPopulation
    \/ RunStart
    \/ GenerateNextGeneration
    \/ Challenge
    \/ RunReturn

Spec == Init /\ [][Next]_vars

----------------------------------------------------------------------------
\* Properties

NumCities == Len(city_list)

\* A generate_next_generation call that ran to its last line
GenerationCompleted == pc = "loop" /\ pc' = "challenge"

\* floor(floor(populationSize * crossoverRate) * survivalRate) for rates >= 0
FloorSurvivingParentCount ==
    (((population_count * crossover_rate.num) \div crossover_rate.den)
        * survival_rate.num) \div survival_rate.den

\* The order `new` is the order `old` with two (possibly equal) positions swapped
OneSwapApart(old, new) ==
    \E point_one, point_two \in 0..(Len(old) - 1) : new = Swap(old, point_one, point_two)

\* C1: in every reachable state every Path of the population (and the tracked
\* fittest and challenger, once set) has an order of length numCities that
\* contains each index 0..numCities-1 exactly once.
IsPermutation(order, n) ==
    /\ Len(order) = n
    /\ \A c \in 0..(n - 1) : Cardinality({ k \in 1..Len(order) : order[k] = c }) = 1

C1_OrdersArePermutations ==
    /\ \A k \in 1..Len(population) : IsPermutation(population[k].order, NumCities)
    /\ fittest # NoPath => IsPermutation(fittest.order, NumCities)
    /\ challenger # NoPath => IsPermutation(challenger.order, NumCities)

\* C1 witness: two generations were bred and mutated over three cities, with
\* at least one offspring slot in each
C1_Witness ==
    /\ pc = "challenge"
    /\ calls = 2
    /\ NumCities = 3
    /\ mutation_rate = Rate(1, 2)
    /\ OffspringCount(population_count,
                      SurvivingParentCount(population_count, crossover_rate, survival_rate)) >= 1

\* C2: once the initial population is built its length is population_count in
\* every state, so every generate_next_generation call leaves the length as it
\* found it, and the assert! on the length never fails.
C2_PopulationLengthConstant ==
    /\ (pc \in {"run", "loop", "challenge", "done"} \/ calls > 0)
            => Len(population) = population_count
    /\ abort # AssertPlace

\* C2 witness: two generations of a population of three were completed
C2_Witness ==
    /\ pc = "loop"
    /\ i = 2
    /\ population_count = 3
    /\ Len(population) = 3

\* C3: a completed generate_next_generation call leaves in each of the final
\* two slots the Path that held that slot after the stable descending sort,
\* with identical order, unless the mutation pass swapped two entries of it
\* (possible only with a mutation rate above zero).
C3_LastTwoCarried ==
    [][GenerationCompleted =>
         LET sorted == SortDescending(population)
             n == Len(population)
         IN  /\ Len(population') = n
             /\ \A k \in {n - 1, n} :
                   \/ population'[k].order = sorted[k].order
                   \/ /\ mutation_rate.num # 0
                      /\ OneSwapApart(sorted[k].order, population'[k].order)]_vars

\* C3 witness: a generation over three cities completed without mutation and
\* its last two slots hold Paths less fit than its first
C3_Witness ==
    /\ pc = "challenge"
    /\ NumCities = 3
    /\ population_count = 3
    /\ mutation_rate = Rate(0, 1)
    /\ FitnessGT(population[1].fitness, population[2].fitness)
    /\ FitnessGT(population[2].fitness, population[3].fitness)

\* C4: a configuration with populationSize - survivingParentCount < 2 is
\* rejected at setup: no generate_next_generation call is ever started for it.
C4_RejectedBeforeFirstGeneration ==
    (population_count
        - SurvivingParentCount(population_count, crossover_rate, survival_rate) < 2)
      => calls = 0

\* How far main has come: every step of the program moves it forward
Progress ==
    CASE pc = "main" -> 0
      [] pc = "run" -> 1
      [] pc = "loop" -> 2 + 2 * i
      [] pc = "challenge" -> 3 + 2 * i
      [] OTHER -> 4 + 2 * max_iterations

\* The program can take a step: the action of its place has an outcome (every
\* set drawn from is non-empty, or the action aborts)
StepPossible ==
    \/ pc = "main" /\ ( \/ population_count = 0
                       \/ NumCities = 0
                       \/ InitialPaths(city_list) # {} )
    \/ pc = "run"
    \/ pc = "challenge"
    \/ pc = "loop" /\ ~LoopContinues(i, max_iterations)
    \/ /\ pc = "loop"
       /\ LoopContinues(i, max_iterations)
       /\ \/ AbortPlaces(population, crossover_rate, survival_rate) # {}
          \/ LET slots == MutationPassSlots(
                              NextGenerationSlots(population, city_list,
                                                  crossover_rate, survival_rate),
                              mutation_rate, city_list)
             IN  \A k \in 1..Len(slots) : slots[k] # {}

\* C5: run always terminates, and when it returns it has called
\* generate_next_generation exactly max_iterations times.  Termination: until
\* main returns or the program aborts a step is possible, every step moves
\* main forward, and the iterations never exceed max_iterations.
C5_RunsExactlyMaxIterations ==
    /\ [](/\ pc \in {"done", "aborted"} \/ StepPossible
          /\ i <= max_iterations
          /\ calls <= max_iterations
          /\ pc = "done" => calls = max_iterations /\ i = max_iterations)
    /\ [][Progress' > Progress]_vars

\* C5 witness: run returned after two generations although the best fitness
\* of the final population is below the tracked best
C5_Witness ==
    /\ pc = "done"
    /\ calls = 2
    /\ max_iterations = 2
    /\ FitnessGT(fittest.fitness, challenger.fitness)

\* C6: between iterations and at the end of run, the fitness of the tracked
\* fittest Path is the greatest fitness of any Path of the initial population
\* and of the populations every completed call produced.
C6_FittestIsBestSeen ==
    pc \in {"loop", "done"} => fittest.fitness = best_seen

\* C6 witness: after an iteration the best fitness of the current population
\* is below the tracked best
C6_Witness ==
    /\ pc = "loop"
    /\ i >= 1
    /\ FitnessGT(fittest.fitness, MaxFitness(population))

\* C7: the latest result of find_fittest (fittest before the first iteration,
\* challenger after one) is a Path of the population of greatest fitness, and
\* it is the one at the lowest index among those of greatest fitness.
C7_FindFittestFirstMaximum ==
    pc = "loop" =>
        LET result == IF i = 0 THEN fittest ELSE challenger
        IN  \E k \in 1..Len(population) :
               /\ result = population[k]
               /\ \A j \in 1..Len(population) :
                     ~FitnessGT(population[j].fitness, result.fitness)
               /\ \A j \in 1..(k - 1) :
                     FitnessGT(result.fitness, population[j].fitness)

\* C7 witness: find_fittest ran on a bred population in which two Paths of
\* different order share the greatest fitness
C7_Witness ==
    /\ pc = "loop"
    /\ i >= 1
    /\ \E j, k \in 1..Len(population) :
          /\ j < k
          /\ population[j].fitness = MaxFitness(population)
          /\ population[k].fitness = MaxFitness(population)
          /\ population[j].order # population[k].order

\* C8: in every reachable state the cached fitness of every Path of the
\* population is calculate_fitness of its current order.
C8_FitnessNeverStale ==
    \A k \in 1..Len(population) :
        population[k].fitness = CalculateFitness(population[k].order, city_list)

\* C8 witness: a generation over three cities was bred and mutated and holds
\* Paths of different fitness
C8_Witness ==
    /\ pc = "challenge"
    /\ NumCities = 3
    /\ mutation_rate = Rate(1, 2)
    /\ \E j, k \in 1..Len(population) :
          FitnessGT(population[j].fitness, population[k].fitness)

\* C9 as stated: a completed generate_next_generation call leaves the top
\* survivingParentCount Paths of the sorted population unchanged, order and
\* fitness, in the first survivingParentCount slots.
C9_ElitesUnchanged ==
    [][GenerationCompleted =>
         LET sorted == SortDescending(population)
         IN  \A k \in 1..FloorSurvivingParentCount : population'[k] = sorted[k]]_vars

\* C9 as amended: each of the first survivingParentCount slots holds the Path
\* of the same rank of the sorted population, unchanged unless the mutation
\* pass of that call swapped two entries of its order and recomputed its
\* fitness (possible only with a mutation rate above zero).
C9_ElitesCarriedModuloMutation ==
    [][GenerationCompleted =>
         LET sorted == SortDescending(population)
         IN  \A k \in 1..FloorSurvivingParentCount :
                \/ population'[k] = sorted[k]
                \/ /\ mutation_rate.num # 0
                   /\ OneSwapApart(sorted[k].order, population'[k].order)
                   /\ population'[k].fitness =
                          CalculateFitness(population'[k].order, city_list)]_vars

\* C9 witness: a generation over three cities completed with one surviving
\* parent and a mutation rate above zero, and the Paths differ in fitness
C9_Witness ==
    /\ pc = "challenge"
    /\ NumCities = 3
    /\ FloorSurvivingParentCount = 1
    /\ mutation_rate = Rate(1, 2)
    /\ FitnessGT(population[1].fitness, population[Len(population)].fitness)

\* C10: with at least one city, populationSize >= 3, breedingCount >= 1,
\* populationSize - survivingParentCount >= 2 and a mutation rate in [0,1], no
\* generate_next_generation call aborts.
C10_NoAbortInGeneration ==
    ( /\ NumCities >= 1
      /\ population_count >= 3
      /\ BreedingCount(population_count, crossover_rate) >= 1
      /\ population_count
            - SurvivingParentCount(population_count, crossover_rate, survival_rate) >= 2
      /\ InUnitInterval(mutation_rate) )
      => ~(pc = "aborted" /\ calls > 0)

\* The part of C10 the code keeps: the same with a crossover rate of at most 1
\* (a breeding_count of at most the population length)
NoAbortInGenerationUpToFullCrossover ==
    crossover_rate.num <= crossover_rate.den => C10_NoAbortInGeneration

====
